---- MODULE Spec2Model ----
(***************************************************************************)
(* A model of get_data.py: the TBA match scraper.                          *)
(*                                                                         *)
(*   - JSON values and Python dicts (insertion ordered)                    *)
(*   - process_score_breakdown / process_match       (the row flattener)   *)
(*   - fetch_event_matches                            (the fetch adapter)  *)
(*   - reorder_columns / update_file                  (the reconciler)     *)
(*   - load_all_events / add_replace_selected and the thread wrappers      *)
(***************************************************************************)
EXTENDS Integers, Sequences, FiniteSets, TLC

VARIABLES
    pm_match,     \* SpecFlatten: the argument handed to process_match
    pm_result,    \* SpecFlatten: what process_match did with it
    fe_response,  \* SpecFetch: the response requests.get returned
    fe_errors_in, \* SpecFetch: error_list as the caller passes it
    fe_result,    \* SpecFetch: what fetch_event_matches did
    file,         \* the spreadsheet at OUTPUT_FILENAME
    rc_incoming,  \* SpecReconcile: the rows a batch collected (all_rows)
    rc_mode,      \* SpecReconcile: the mode update_file is called with
    rc_prev,      \* SpecReconcile: the file as the last call found it
    rc_calls,     \* SpecReconcile: how many times update_file was called
    rc_raised,    \* SpecReconcile: whether the last call raised
    available_events,     \* the global list refresh_available_events sets
    selection,            \* available_events_listbox.curselection(), as a set
    file_events_listbox,  \* the items of the "events in the file" listbox
    threads,              \* the background threads the two buttons start
    batches_started,      \* how many times a batch button was clicked
    progress_on           \* whether the progress bar is shown and running

flattenVars == <<pm_match, pm_result>>

fetchVars == <<fe_response, fe_errors_in, fe_result>>

reconcileVars == <<rc_incoming, rc_mode, rc_prev, rc_calls, rc_raised>>

guiVars ==
    <<available_events, selection, file_events_listbox, threads, batches_started,
      progress_on>>

vars == <<flattenVars, fetchVars, file, reconcileVars, guiVars>>

(***************************************************************************)
(* JSON values as Python sees them after response.json().  Every kind has  *)
(* its own payload field, so two values of different kinds never compare   *)
(* a string with a number.  A dict keeps its keys in insertion order, as   *)
(* Python dicts do: keys is the order, d the mapping.                      *)
(***************************************************************************)
JNull == [k |-> "null"]
JStr(s) == [k |-> "str", s |-> s]
JInt(n) == [k |-> "int", n |-> n]
JList(q) == [k |-> "list", l |-> q]
EmptyDict == [k |-> "dict", keys |-> <<>>, d |-> <<>>]

IsDict(v) == v.k = "dict"

\* key in dct
DictHas(dct, key) == key \in DOMAIN dct.d

\* dct.get(key, default)
DictGet(dct, key, default) == IF DictHas(dct, key) THEN dct.d[key] ELSE default

\* dct[key] = v : a new key goes last, an old key keeps its place
DictSet(dct, key, v) ==
    [k |-> "dict",
     keys |-> IF DictHas(dct, key) THEN dct.keys ELSE Append(dct.keys, key),
     d |-> [x \in (DOMAIN dct.d) \cup {key} |-> IF x = key THEN v ELSE dct.d[x]]]

\* dct.update(other)
RECURSIVE DictUpdateFrom(_, _, _)
DictUpdateFrom(dct, other, i) ==
    IF i > Len(other.keys) THEN dct
    ELSE DictUpdateFrom(DictSet(dct, other.keys[i], other.d[other.keys[i]]), other, i + 1)

DictUpdate(dct, other) == DictUpdateFrom(dct, other, 1)

\* A dict literal {k1: v1, k2: v2, ...} from a sequence of <<key, value>> pairs.
RECURSIVE DictOfFrom(_, _, _)
DictOfFrom(dct, pairs, i) ==
    IF i > Len(pairs) THEN dct
    ELSE DictOfFrom(DictSet(dct, pairs[i][1], pairs[i][2]), pairs, i + 1)

DictOf(pairs) == DictOfFrom(EmptyDict, pairs, 1)

\* bool(v): the truth value Python gives a JSON value
Truthy(v) ==
    CASE v.k = "null" -> FALSE
      [] v.k = "str" -> v.s # ""
      [] v.k = "int" -> v.n # 0
      [] v.k = "list" -> v.l # <<>>
      [] v.k = "dict" -> v.keys # <<>>

\* str(v) as an f-string renders it; comp_level and match_number are scalars
PyStr(v) ==
    CASE v.k = "null" -> "None"
      [] v.k = "str" -> v.s
      [] v.k = "int" -> ToString(v.n)

\* The outcome of a call: a returned value, or an exception raised.
Returned(v) == [raised |-> FALSE, value |-> v]
Raised(what) == [raised |-> TRUE, value |-> what]

(***************************************************************************)
(* Module constants of get_data.py.                                        *)
(***************************************************************************)
IGNORE_TOP_KEYS ==
    {"actual_time", "comp_level", "match_number", "key", "post_result_time",
     "predicted_time", "set_number", "time", "videos"}

IGNORE_REEF_KEYS == {"botRow", "midRow", "topRow"}

(***************************************************************************)
(* str.replace("frc", "") and int(str) on Python strings.                  *)
(***************************************************************************)
RECURSIVE ReplaceFrc(_)
ReplaceFrc(s) ==
    IF Len(s) < 3 THEN s
    ELSE IF SubSeq(s, 1, 3) = "frc" THEN ReplaceFrc(SubSeq(s, 4, Len(s)))
    ELSE SubSeq(s, 1, 1) \o ReplaceFrc(SubSeq(s, 2, Len(s)))

Digits == <<"0", "1", "2", "3", "4", "5", "6", "7", "8", "9">>

IsDigit(c) == \E i \in 1..Len(Digits) : Digits[i] = c

DigitVal(c) == (CHOOSE i \in 1..Len(Digits) : Digits[i] = c) - 1

AllDigits(s) == \A i \in 1..Len(s) : IsDigit(SubSeq(s, i, i))

RECURSIVE DigitsVal(_, _)
DigitsVal(s, acc) ==
    IF s = "" THEN acc
    ELSE DigitsVal(SubSeq(s, 2, Len(s)), 10 * acc + DigitVal(SubSeq(s, 1, 1)))

\* int(s): a decimal numeral, or ValueError (the keys of the model carry no
\* sign, blank or underscore)
PyInt(s) ==
    IF s # "" /\ AllDigits(s) THEN Returned(DigitsVal(s, 0)) ELSE Raised("ValueError")

(***************************************************************************)
(* process_score_breakdown(sb)                                             *)
(***************************************************************************)
REEF_PARENTS == {"autoReef", "teleopReef"}

\* the inner loop: for sub_key, sub_val in value.items()
RECURSIVE LiftReef(_, _, _, _)
LiftReef(flat, key, value, j) ==
    IF j > Len(value.keys) THEN flat
    ELSE LET sub_key == value.keys[j]
         IN  LiftReef(IF sub_key \notin IGNORE_REEF_KEYS
                        THEN DictSet(flat, key \o "_" \o sub_key, value.d[sub_key])
                        ELSE flat,
                      key, value, j + 1)

\* A variant that keeps totalPoints like any other key.
FlattenKey_KeepTotal(flat, key, value) ==
    IF key \in REEF_PARENTS /\ IsDict(value)
    THEN LiftReef(flat, key, value, 1)
    ELSE DictSet(flat, key, value)

\* the body of the outer loop, for one (key, value) of sb.items()
FlattenKey(flat, key, value) ==
    IF key = "totalPoints" THEN flat
    ELSE IF key \in REEF_PARENTS /\ IsDict(value)
         THEN LiftReef(flat, key, value, 1)
         ELSE DictSet(flat, key, value)

\* the outer loop: for key, value in sb.items()
RECURSIVE FlattenFrom(_, _, _)
FlattenFrom(flat, sb, i) ==
    IF i > Len(sb.keys) THEN flat
    ELSE FlattenFrom(FlattenKey(flat, sb.keys[i], sb.d[sb.keys[i]]), sb, i + 1)

process_score_breakdown(sb) ==
    IF ~IsDict(sb) THEN Raised("AttributeError")   \* sb.items() on a non-dict
    ELSE Returned(FlattenFrom(EmptyDict, sb, 1))

(***************************************************************************)
(* process_match(match)                                                    *)
(***************************************************************************)
\* len(v): defined for a list, a string and a dict; TypeError otherwise
PyLen(v) ==
    CASE v.k = "list" -> Returned(Len(v.l))
      [] v.k = "str" -> Returned(Len(v.s))
      [] v.k = "dict" -> Returned(Len(v.keys))
      [] OTHER -> Raised("TypeError")

\* v[i] for a 0-based integer i < len(v): a dict of JSON has no integer key
PyIndex(v, i) ==
    CASE v.k = "list" -> Returned(v.l[i + 1])
      [] v.k = "str" -> Returned(JStr(SubSeq(v.s, i + 1, i + 1)))
      [] OTHER -> Raised("KeyError")

\* int(team_keys[i].replace("frc", "")) if len(team_keys) > i else None
BotExpr(team_keys, i) ==
    LET n == PyLen(team_keys)
    IN  IF n.raised THEN n
        ELSE IF ~(n.value > i) THEN Returned(JNull)
        ELSE LET item == PyIndex(team_keys, i)
             IN  IF item.raised THEN item
                 ELSE IF item.value.k # "str" THEN Raised("AttributeError")
                 ELSE LET num == PyInt(ReplaceFrc(item.value.s))
                      IN  IF num.raised THEN num ELSE Returned(JInt(num.value))

\* A variant whose except branch stores 0 in place of None.
Bot_ZeroOnError(team_keys, i) ==
    LET r == BotExpr(team_keys, i) IN IF r.raised THEN JInt(0) ELSE r.value

\* try: row["bot<i+1>"] = ...  except: row["bot<i+1>"] = None
Bot(team_keys, i) ==
    LET r == BotExpr(team_keys, i) IN IF r.raised THEN JNull ELSE r.value

\* Build common data: the loop over match.items()
RECURSIVE CommonFrom(_, _, _)
CommonFrom(common_data, match, i) ==
    IF i > Len(match.keys) THEN common_data
    ELSE LET key == match.keys[i]
         IN  CommonFrom(
                 IF key \notin IGNORE_TOP_KEYS /\ key \notin {"alliances", "score_breakdown"}
                 THEN DictSet(common_data, key, match.d[key])
                 ELSE common_data,
                 match, i + 1)

\* common_data["match"] = f"{comp_level} {match_number}"
MatchId(match) ==
    PyStr(DictGet(match, "comp_level", JStr(""))) \o " "
        \o PyStr(DictGet(match, "match_number", JStr("")))

\* One pass of the loop over ['red', 'blue']: the row, or the exception
\* that leaves process_match.
AllianceRow(common_data, alliances, score_breakdown, alliance_color) ==
    IF ~IsDict(alliances) THEN Raised("AttributeError")
    ELSE
    LET alliance_data == DictGet(alliances, alliance_color, EmptyDict)
    IN  IF ~IsDict(alliance_data) THEN Raised("AttributeError")
        ELSE
        LET team_keys == DictGet(alliance_data, "team_keys", JList(<<>>))
            row1 == DictSet(common_data, "alliance", JStr(alliance_color))
            row2 == DictSet(row1, "bot1", Bot(team_keys, 0))
            row3 == DictSet(row2, "bot2", Bot(team_keys, 1))
            row4 == DictSet(row3, "bot3", Bot(team_keys, 2))
            row5 == DictSet(row4, "alliance_score", DictGet(alliance_data, "score", JNull))
        IN  IF ~IsDict(score_breakdown) THEN Raised("AttributeError")
            ELSE
            LET sb == DictGet(score_breakdown, alliance_color, EmptyDict)
            IN  IF ~Truthy(sb) THEN Returned(row5)
                ELSE LET flat_sb == process_score_breakdown(sb)
                     IN  IF flat_sb.raised THEN flat_sb
                         ELSE Returned(DictUpdate(row5, flat_sb.value))

\* A variant that walks the alliances blue first.
ALLIANCE_COLORS_BlueFirst == <<"blue", "red">>

ALLIANCE_COLORS == <<"red", "blue">>

\* for alliance_color in ['red', 'blue']: ... output_rows.append(row)
RECURSIVE RowsFrom(_, _, _, _, _)
RowsFrom(output_rows, common_data, alliances, score_breakdown, i) ==
    IF i > Len(ALLIANCE_COLORS) THEN Returned(output_rows)
    ELSE LET row == AllianceRow(common_data, alliances, score_breakdown, ALLIANCE_COLORS[i])
         IN  IF row.raised THEN row
             ELSE RowsFrom(Append(output_rows, row.value), common_data, alliances,
                           score_breakdown, i + 1)

process_match(match) ==
    IF ~IsDict(match) THEN Raised("AttributeError")     \* match.get on a non-dict
    ELSE IF DictGet(match, "alliances", JNull).k = "null"
            \/ DictGet(match, "score_breakdown", JNull).k = "null"
         THEN Returned(<<>>)
    ELSE LET common_data == DictSet(CommonFrom(EmptyDict, match, 1), "match",
                                    JStr(MatchId(match)))
         IN  RowsFrom(<<>>, common_data, match.d["alliances"], match.d["score_breakdown"], 1)

(***************************************************************************)
(* The matches the flattener is tried on.  A match is built from a shape   *)
(* for each part; Absent marks a key the mapping does not hold.            *)
(***************************************************************************)
Absent == [k |-> "absent"]

WithKey(dct, key, v) == IF v.k = "absent" THEN dct ELSE DictSet(dct, key, v)

\* The dict of the pairs whose index is in S, in the order of pairs.
RECURSIVE PickFrom(_, _, _, _)
PickFrom(dct, pairs, S, i) ==
    IF i > Len(pairs) THEN dct
    ELSE PickFrom(IF i \in S THEN DictSet(dct, pairs[i][1], pairs[i][2]) ELSE dct,
                  pairs, S, i + 1)

SubDicts(pairs) == {PickFrom(EmptyDict, pairs, S, 1) : S \in SUBSET (1..Len(pairs))}

GoodTeamKeys == JList(<<JStr("frc254"), JStr("frc1678"), JStr("frc118")>>)

TeamKeysShapes ==
    {Absent, JNull, JInt(7), JStr("frc9"), JStr("12"), EmptyDict,
     DictOf(<< <<"0", JStr("frc1")>> >>),
     JList(<<>>), GoodTeamKeys,
     JList(<<JStr("frc254"), JStr("frcX")>>),
     JList(<<JInt(254), JNull, JStr("frc")>>),
     JList(<<JStr("254"), JStr("frc12frc3"), JList(<<>>), JStr("frc4")>>)}

GoodSide == DictOf(<< <<"score", JInt(120)>>, <<"team_keys", GoodTeamKeys>> >>)

SideShapes ==
    {Absent, JNull, JStr("x"), JList(<<>>), JInt(0)}
        \cup {WithKey(EmptyDict, "team_keys", tk) : tk \in TeamKeysShapes}
        \cup {WithKey(DictOf(<< <<"score", JInt(88)>> >>), "team_keys", tk) :
                tk \in {Absent, GoodTeamKeys}}

AlliancesShapes ==
    {Absent, JNull, JList(<<>>), JStr("red"), JInt(0), EmptyDict}
        \cup {WithKey(WithKey(EmptyDict, "red", side), "blue", GoodSide) :
                side \in SideShapes}
        \cup {WithKey(WithKey(EmptyDict, "red", GoodSide), "blue", side) :
                side \in {Absent, JNull, JStr("x")}}

ReefShape ==
    DictOf(<< <<"botRow", JInt(1)>>, <<"algae", JInt(2)>>, <<"totalPoints", JInt(9)>> >>)

SbPairs ==
    << <<"totalPoints", JInt(120)>>, <<"autoReef", ReefShape>>,
       <<"teleopReef", JInt(4)>>, <<"foo", JInt(3)>>, <<"alliance", JStr("green")>>,
       <<"autoReef_algae", JInt(7)>> >>

GoodSb == DictOf(<< <<"totalPoints", JInt(90)>>, <<"teleopReef", ReefShape>> >>)

SbSideShapes ==
    {Absent, JNull, JStr("x"), JStr(""), JInt(0), JInt(5), JList(<<>>),
     JList(<<JInt(1)>>)} \cup SubDicts(SbPairs)

ScoreBreakdownShapes ==
    {Absent, JNull, JList(<<>>), JStr("x"), JInt(0), EmptyDict}
        \cup {WithKey(WithKey(EmptyDict, "red", side), "blue", GoodSb) :
                side \in SbSideShapes}
        \cup {WithKey(WithKey(EmptyDict, "red", GoodSb), "blue", side) :
                side \in {Absent, JNull, JInt(5),
                          DictOf(<< <<"alliance", JStr("red")>> >>)}}

TopShapes ==
    {EmptyDict,
     DictOf(<< <<"key", JStr("2025x_qm5")>>, <<"event_key", JStr("2025x")>>,
               <<"comp_level", JStr("qm")>>, <<"match_number", JInt(5)>>,
               <<"set_number", JInt(1)>>, <<"winning_alliance", JStr("red")>> >>),
     DictOf(<< <<"comp_level", JNull>>, <<"event_key", JStr("2025x")>> >>),
     DictOf(<< <<"match_number", JInt(5)>>, <<"totalPoints", JInt(300)>> >>),
     DictOf(<< <<"alliance", JStr("purple")>>, <<"match", JStr("mine")>>,
               <<"bot1", JStr("frc1")>>, <<"time", JInt(1)>> >>),
     DictOf(<< <<"comp_level", JStr("sf")>>, <<"match_number", JInt(1)>>,
               <<"totalPoints", JNull>>, <<"videos", JList(<<>>)>> >>)}

Matches ==
    {WithKey(WithKey(top, "alliances", al), "score_breakdown", sbd) :
        top \in TopShapes, al \in AlliancesShapes, sbd \in ScoreBreakdownShapes}

(***************************************************************************)
(* SpecFlatten: process_match applied to one match.                        *)
(***************************************************************************)
NotCalled == [called |-> FALSE, raised |-> FALSE, rows |-> <<>>]

\* fetch_event_matches before it is called
NotFetched == [called |-> FALSE, raised |-> FALSE, rows |-> <<>>, error_list |-> <<>>]

\* the other specifications' variables, at rest
FetchIdle ==
    /\ fe_response = [status_code |-> 0, json |-> [raised |-> TRUE, value |-> "none"]]
    /\ fe_errors_in = <<>>
    /\ fe_result = NotFetched

GuiIdle ==
    /\ available_events = <<>>
    /\ selection = {}
    /\ file_events_listbox = <<>>
    /\ threads = <<>>
    /\ batches_started = 0
    /\ progress_on = FALSE

ReconcileIdle ==
    /\ rc_incoming = <<>>
    /\ rc_mode = "replace"
    /\ rc_prev = [exists |-> FALSE]
    /\ rc_calls = 0
    /\ rc_raised = FALSE

FlattenIdle == pm_match = EmptyDict /\ pm_result = NotCalled

FlattenInit ==
    /\ pm_match \in Matches
    /\ pm_result = NotCalled
    /\ FetchIdle
    /\ file = [exists |-> FALSE]
    /\ ReconcileIdle
    /\ GuiIdle

Flatten ==
    /\ ~pm_result.called
    /\ LET r == process_match(pm_match)
       IN  pm_result' = [called |-> TRUE, raised |-> r.raised,
                         rows |-> IF r.raised THEN <<>> ELSE r.value]
    /\ UNCHANGED <<pm_match, fetchVars, file, reconcileVars, guiVars>>

FlattenNext == Flatten

SpecFlatten == FlattenInit /\ [][FlattenNext]_vars

(***************************************************************************)
(* Properties of process_match, checked under SpecFlatten.                 *)
(***************************************************************************)
\* alliances and score_breakdown are both present and non-null
Complete(match) ==
    /\ DictGet(match, "alliances", JNull).k # "null"
    /\ DictGet(match, "score_breakdown", JNull).k # "null"

\* alliances, score_breakdown, an alliance side that is present, or a truthy
\* per-alliance score breakdown is not a mapping
BadShape(match) ==
    LET al == match.d["alliances"]
        sbd == match.d["score_breakdown"]
    IN  \/ ~IsDict(al)
        \/ ~IsDict(sbd)
        \/ \E c \in {"red", "blue"} :
              \/ DictHas(al, c) /\ ~IsDict(al.d[c])
              \/ DictHas(sbd, c) /\ Truthy(sbd.d[c]) /\ ~IsDict(sbd.d[c])

SideOf(match, c) == DictGet(match.d["alliances"], c, EmptyDict)

SbOf(match, c) == DictGet(match.d["score_breakdown"], c, EmptyDict)

RowColor(i) == <<"red", "blue">>[i]

\* C6 as stated: a match with alliances and score_breakdown present and
\* non-null gives exactly two rows, alliance = red then alliance = blue,
\* whatever keys it holds.  (Stated here for the matches whose parts are
\* mappings, the ones process_match returns on: the keys alone refute it.)
C6_Original ==
    (pm_result.called /\ Complete(pm_match) /\ ~BadShape(pm_match)) =>
        /\ ~pm_result.raised
        /\ Len(pm_result.rows) = 2
        /\ pm_result.rows[1].d["alliance"] = JStr("red")
        /\ pm_result.rows[2].d["alliance"] = JStr("blue")

\* C6 amended: when moreover alliances, score_breakdown, their sides and the
\* non-empty per-alliance score breakdowns are mappings, process_match
\* returns exactly two rows, the first for red and the second for blue; the
\* row's alliance column is that colour unless the side's score breakdown
\* has a key "alliance" of its own, whose value then replaces the colour.
C6_Amended ==
    (pm_result.called /\ Complete(pm_match) /\ ~BadShape(pm_match)) =>
        /\ ~pm_result.raised
        /\ Len(pm_result.rows) = 2
        /\ \A i \in 1..2 :
              LET sb == SbOf(pm_match, RowColor(i))
              IN  pm_result.rows[i].d["alliance"] =
                      IF IsDict(sb) /\ DictHas(sb, "alliance")
                      THEN sb.d["alliance"]
                      ELSE JStr(RowColor(i))

C6_Witness ==
    /\ pm_result.called /\ Complete(pm_match) /\ ~BadShape(pm_match)
    /\ Len(pm_result.rows) = 2
    /\ pm_result.rows[1].d["alliance"] = JStr("red")
    /\ pm_result.rows[2].d["alliance"] = JStr("blue")
    /\ DictHas(pm_match, "winning_alliance")
    /\ IsDict(SbOf(pm_match, "red"))
    /\ DictHas(SbOf(pm_match, "red"), "foo")

\* C7 as stated: no row returned by process_match has a column totalPoints.
C7_Original ==
    pm_result.called =>
        \A i \in 1..Len(pm_result.rows) : ~DictHas(pm_result.rows[i], "totalPoints")

\* C7 amended: a row has a column totalPoints exactly when the match has a
\* top-level key totalPoints, and then the column holds that top-level
\* value; the totalPoints of a score breakdown, and a totalPoints child of
\* autoReef or teleopReef, never become the column totalPoints.
C7_Amended ==
    pm_result.called =>
        \A i \in 1..Len(pm_result.rows) :
            /\ DictHas(pm_result.rows[i], "totalPoints") <=> DictHas(pm_match, "totalPoints")
            /\ DictHas(pm_match, "totalPoints") =>
                  pm_result.rows[i].d["totalPoints"] = pm_match.d["totalPoints"]

C7_Witness ==
    /\ pm_result.called /\ Len(pm_result.rows) = 2
    /\ ~DictHas(pm_match, "totalPoints")
    /\ IsDict(SbOf(pm_match, "red"))
    /\ DictHas(SbOf(pm_match, "red"), "totalPoints")
    /\ DictHas(SbOf(pm_match, "red"), "autoReef")
    /\ DictHas(pm_result.rows[1], "autoReef_totalPoints")
    /\ ~DictHas(pm_result.rows[1], "totalPoints")

\* C9 as stated: process_match never raises, whatever the match holds.
C9_Original == pm_result.called => ~pm_result.raised

\* the value process_match leaves in bot<j+1> when the extraction fails
BotDegrades(row, team_keys, j) ==
    (\/ team_keys.k \notin {"list", "str"}
     \/ team_keys.k = "list" /\ (Len(team_keys.l) <= j \/ team_keys.l[j + 1].k # "str"))
        => row.d[<<"bot1", "bot2", "bot3">>[j + 1]] = JNull

\* C9 amended: process_match raises exactly when alliances and
\* score_breakdown are both non-null and alliances, score_breakdown, a
\* present alliance side or a truthy per-alliance score breakdown is not a
\* mapping; no team_keys value makes it raise: a null or non-sequence
\* team_keys, a missing slot or a non-string team key leaves that bot
\* column null.
C9_Amended ==
    pm_result.called =>
        /\ pm_result.raised <=> (Complete(pm_match) /\ BadShape(pm_match))
        /\ \A i \in 1..Len(pm_result.rows) : \A j \in 0..2 :
              /\ pm_result.rows[i].d[<<"bot1", "bot2", "bot3">>[j + 1]].k \in {"null", "int"}
              /\ BotDegrades(pm_result.rows[i],
                             DictGet(SideOf(pm_match, RowColor(i)), "team_keys", JList(<<>>)),
                             j)

C9_Witness ==
    /\ pm_result.called /\ ~pm_result.raised /\ Len(pm_result.rows) = 2
    /\ DictGet(SideOf(pm_match, "red"), "team_keys", JList(<<>>))
          = JList(<<JInt(254), JNull, JStr("frc")>>)
    /\ pm_result.rows[1].d["bot1"] = JNull
    /\ pm_result.rows[1].d["bot3"] = JNull
    /\ pm_result.rows[2].d["bot1"] = JInt(254)

(***************************************************************************)
(* fetch_event_matches(event_key, error_list), given the response that     *)
(* requests.get returned.  A response is its status code and what          *)
(* response.json() does: return a value or raise.                          *)
(***************************************************************************)
HTTP_OK == 200

Response(status, json) == [status_code |-> status, json |-> json]

\* the error strings, by what they are built from
MatchError(i, event_key, match) ==
    [kind |-> "match", event_key |-> event_key, index |-> i, data |-> match]

JsonError(event_key) == [kind |-> "json", event_key |-> event_key]

HttpError(event_key, status) ==
    [kind |-> "http", event_key |-> event_key, status_code |-> status]

\* enumerate(matches): the items a for loop draws from a JSON value, or the
\* TypeError of a value that is not iterable
PyIter(v) ==
    CASE v.k = "list" -> Returned(v.l)
      [] v.k = "dict" -> Returned([i \in 1..Len(v.keys) |-> JStr(v.keys[i])])
      [] v.k = "str" -> Returned([i \in 1..Len(v.s) |-> JStr(SubSeq(v.s, i, i))])
      [] OTHER -> Raised("TypeError")

\* A variant whose except branch also drops the rows collected so far, as a
\* try around the whole loop would.
MatchStep_DropRows(acc, i, event_key, match) ==
    LET processed == process_match(match)
    IN  IF processed.raised
        THEN [rows |-> <<>>,
              error_list |-> Append(acc.error_list, MatchError(i, event_key, match))]
        ELSE [acc EXCEPT !.rows = acc.rows \o processed.value]

\* the loop body for (i, match): rows.extend(processed), or the error
\* appended and the match skipped
MatchStep(acc, i, event_key, match) ==
    LET processed == process_match(match)
    IN  IF processed.raised
        THEN [acc EXCEPT !.error_list =
                  Append(acc.error_list, MatchError(i, event_key, match))]
        ELSE [acc EXCEPT !.rows = acc.rows \o processed.value]

\* for i, match in enumerate(matches)   (i is 0-based, as enumerate counts)
RECURSIVE MatchLoop(_, _, _, _)
MatchLoop(acc, matches, event_key, i) ==
    IF i >= Len(matches) THEN acc
    ELSE MatchLoop(MatchStep(acc, i, event_key, matches[i + 1]), matches, event_key, i + 1)

\* Returns [rows, error_list]: the rows returned and error_list as the call
\* leaves it; or raises, when the parsed body cannot be iterated.
fetch_event_matches(event_key, response, error_list) ==
    IF response.status_code = HTTP_OK
    THEN IF response.json.raised
         THEN Returned([rows |-> <<>>,
                        error_list |-> Append(error_list, JsonError(event_key))])
         ELSE LET matches == PyIter(response.json.value)
              IN  IF matches.raised THEN matches
                  ELSE LET acc == MatchLoop([rows |-> <<>>, error_list |-> error_list],
                                            matches.value, event_key, 0)
                       IN  Returned(acc)
    ELSE Returned([rows |-> <<>>,
                   error_list |-> Append(error_list,
                                         HttpError(event_key, response.status_code))])

(***************************************************************************)
(* The matches and responses the fetch adapter is tried on.                *)
(***************************************************************************)
EV_A == "2025a"

EV_B == "2025b"

OneSide(team, score) ==
    DictOf(<< <<"score", JInt(score)>>, <<"team_keys", JList(<<JStr(team)>>)>> >>)

\* A played match as TBA returns it (the parts the flattener reads).
GoodMatch(event_key, comp_level, set_number, match_number) ==
    DictOf(<< <<"comp_level", JStr(comp_level)>>,
              <<"event_key", JStr(event_key)>>,
              <<"match_number", JInt(match_number)>>,
              <<"set_number", JInt(set_number)>>,
              <<"alliances", DictOf(<< <<"red", OneSide("frc254", 120)>>,
                                       <<"blue", OneSide("frc118", 90)>> >>)>>,
              <<"score_breakdown",
                DictOf(<< <<"red", DictOf(<< <<"totalPoints", JInt(120)>> >>)>>,
                          <<"blue", DictOf(<< <<"totalPoints", JInt(90)>> >>)>> >>)>> >>)

\* A match not played yet: zero rows, no error.
IncompleteMatch(event_key) ==
    DictSet(GoodMatch(event_key, "qm", 1, 9), "score_breakdown", JNull)

\* A match whose red alliance is null: process_match raises.
BadMatch(event_key) ==
    DictSet(GoodMatch(event_key, "qm", 1, 8), "alliances",
            DictOf(<< <<"red", JNull>>, <<"blue", OneSide("frc118", 90)>> >>))

FetchSamples ==
    {GoodMatch(EV_A, "qm", 1, 1), GoodMatch(EV_A, "qm", 1, 2), IncompleteMatch(EV_A),
     BadMatch(EV_A), JStr("Error")}

MaxMatches == 3

\* the sequences over S of length n or less
SeqsUpTo(S, n) == UNION {[1..m -> S] : m \in 0..n}

FetchResponses ==
    {Response(HTTP_OK, Returned(JList(ms))) : ms \in SeqsUpTo(FetchSamples, MaxMatches)}
        \cup {Response(HTTP_OK, Returned(DictOf(<< <<"Error", JStr("bad key")>> >>))),
              Response(HTTP_OK, Returned(JNull)),
              Response(HTTP_OK, Raised("JSONDecodeError")),
              Response(404, Raised("JSONDecodeError")),
              Response(500, Returned(JList(<<GoodMatch(EV_A, "qm", 1, 1)>>)))}

(***************************************************************************)
(* SpecFetch: fetch_event_matches applied to one response.                 *)
(***************************************************************************)
FetchInit ==
    /\ fe_response \in FetchResponses
    /\ fe_errors_in \in {<<>>, <<HttpError(EV_B, 404)>>}
    /\ fe_result = NotFetched
    /\ FlattenIdle
    /\ file = [exists |-> FALSE]
    /\ ReconcileIdle
    /\ GuiIdle

Fetch ==
    /\ ~fe_result.called
    /\ \E r \in {fetch_event_matches(EV_A, fe_response, fe_errors_in)} :
          fe_result' =
              IF r.raised
              THEN [called |-> TRUE, raised |-> TRUE, rows |-> <<>>,
                    error_list |-> fe_errors_in]
              ELSE [called |-> TRUE, raised |-> FALSE, rows |-> r.value.rows,
                    error_list |-> r.value.error_list]
    /\ UNCHANGED <<fe_response, fe_errors_in, flattenVars, file, reconcileVars, guiVars>>

FetchNext == Fetch

SpecFetch == FetchInit /\ [][FetchNext]_vars

\* the list without its i-th item
RemoveAt(q, i) == SubSeq(q, 1, i - 1) \o SubSeq(q, i + 1, Len(q))

\* the response is a parsed list of matches
FetchedList ==
    /\ fe_response.status_code = HTTP_OK
    /\ ~fe_response.json.raised
    /\ fe_response.json.value.k = "list"

\* the errors this call appended
NewErrors == SubSeq(fe_result.error_list, Len(fe_errors_in) + 1, Len(fe_result.error_list))

\* C3: error isolation.  For a fetched and parsed list, each match that
\* makes process_match raise leaves the returned rows what they would be
\* without that match (same rows, same order), adds exactly one error
\* record, which names that match's 0-based index and data, and the errors
\* passed in stay in front.
C3_ErrorIsolation ==
    (fe_result.called /\ FetchedList) =>
        LET ms == fe_response.json.value.l
        IN  /\ ~fe_result.raised
            /\ SubSeq(fe_result.error_list, 1, Len(fe_errors_in)) = fe_errors_in
            /\ \A i \in 1..Len(ms) :
                  process_match(ms[i]).raised =>
                      LET without == fetch_event_matches(
                              EV_A, Response(HTTP_OK, Returned(JList(RemoveAt(ms, i)))),
                              fe_errors_in).value
                      IN  /\ fe_result.rows = without.rows
                          /\ Len(fe_result.error_list) = Len(without.error_list) + 1
                          /\ Cardinality({n \in 1..Len(NewErrors) :
                                            NewErrors[n].index = i - 1}) = 1
                          /\ \E n \in 1..Len(NewErrors) :
                                NewErrors[n] = MatchError(i - 1, EV_A, ms[i])

C3_Witness ==
    /\ fe_result.called /\ FetchedList
    /\ fe_response.json.value.l =
          <<GoodMatch(EV_A, "qm", 1, 1), BadMatch(EV_A), GoodMatch(EV_A, "qm", 1, 2)>>
    /\ Len(fe_result.rows) = 4
    /\ fe_result.rows[3].d["match"] = JStr("qm 2")
    /\ NewErrors = <<MatchError(1, EV_A, BadMatch(EV_A))>>

(***************************************************************************)
(* Data frames and the spreadsheet file.  A frame is its ordered columns   *)
(* and its rows, each row a function from the columns to cell values; a    *)
(* cell a row does not set is NaN, modelled as JNull.                      *)
(***************************************************************************)
OUTPUT_FILENAME == "matches.xlsx"

Range(q) == {q[i] : i \in 1..Len(q)}

\* q without repeats: each item where it first occurs
FirstOccurrences(q) ==
    LET firsts == {i \in 1..Len(q) : \A j \in 1..(i - 1) : q[j] # q[i]}
    IN  [n \in 1..Cardinality(firsts) |->
            q[CHOOSE i \in firsts : Cardinality({j \in firsts : j < i}) = n - 1]]

\* cols followed by the keys it lacks, in the order of keys
AppendNew(cols, keys) == FirstOccurrences(cols \o keys)

\* the keys of every dict, one dict after the other
RECURSIVE AllKeys(_)
AllKeys(dicts) ==
    IF dicts = <<>> THEN <<>> ELSE Head(dicts).keys \o AllKeys(Tail(dicts))

\* pd.DataFrame(all_rows) for a list of dicts
DataFrame(dicts) ==
    LET cols == FirstOccurrences(AllKeys(dicts))
    IN  [columns |-> cols,
         rows |-> [i \in 1..Len(dicts) |->
                     [c \in Range(cols) |-> DictGet(dicts[i], c, JNull)]]]

\* pd.concat([a, b], ignore_index=True): the union of the columns, a's first
Concat(a, b) ==
    LET cols == AppendNew(a.columns, b.columns)
        Pad(frame, i) == [c \in Range(cols) |->
                            IF c \in Range(frame.columns) THEN frame.rows[i][c] ELSE JNull]
    IN  [columns |-> cols,
         rows |-> [i \in 1..(Len(a.rows) + Len(b.rows)) |->
                     IF i <= Len(a.rows) THEN Pad(a, i) ELSE Pad(b, i - Len(a.rows))]]

PINNED_COLUMNS == <<"event_key", "match", "winning_alliance">>

reorder_columns(df) ==
    LET InCols(c) == c \in Range(df.columns)
        NotPinned(c) == c \notin Range(PINNED_COLUMNS)
        desired_order == SelectSeq(PINNED_COLUMNS, InCols)
        cols == SelectSeq(df.columns, NotPinned)
    IN  [df EXCEPT !.columns = desired_order \o cols]

\* The file at OUTPUT_FILENAME: absent, or a sheet with a header row, the
\* data rows and the column widths.
NoFile == [exists |-> FALSE]

Max(a, b) == IF a >= b THEN a ELSE b

\* len(str(cell.value)) if cell.value, else 0
CellLength(v) == IF Truthy(v) THEN Len(PyStr(v)) ELSE 0

RECURSIVE MaxLength(_, _, _, _)
MaxLength(rows, c, i, max_length) ==
    IF i > Len(rows) THEN max_length
    ELSE MaxLength(rows, c, i + 1, Max(max_length, CellLength(rows[i][c])))

\* auto_adjust_excel_columns: each column as wide as its longest cell, the
\* header included, plus 2
auto_adjust_excel_columns(sheet) ==
    [sheet EXCEPT !.widths =
        [n \in 1..Len(sheet.columns) |->
            MaxLength(sheet.rows, sheet.columns[n], 1, Len(sheet.columns[n])) + 2]]

\* df.to_excel(OUTPUT_FILENAME, index=False)
to_excel(df) ==
    [exists |-> TRUE, columns |-> df.columns, rows |-> df.rows, widths |-> <<>>]

\* the strings pd.read_excel reads as NaN
NA_VALUES ==
    {"", "#N/A", "#N/A N/A", "#NA", "-1.#IND", "-1.#QNAN", "-NaN", "-nan", "1.#IND",
     "1.#QNAN", "<NA>", "N/A", "NA", "NULL", "NaN", "None", "n/a", "nan", "null"}

ReadCell(v) == IF v.k = "str" /\ v.s \in NA_VALUES THEN JNull ELSE v

\* pd.read_excel(OUTPUT_FILENAME)
read_excel(sheet) ==
    [columns |-> sheet.columns,
     rows |-> [i \in 1..Len(sheet.rows) |->
                 [c \in Range(sheet.columns) |-> ReadCell(sheet.rows[i][c])]]]

\* df[column]: the column's cells, or KeyError
Column(df, c) ==
    IF c \in Range(df.columns)
    THEN Returned([i \in 1..Len(df.rows) |-> df.rows[i][c]])
    ELSE Raised("KeyError")

\* A variant of the filter that keeps the rows of the events fetched and
\* drops the others.
KeepRows_Inverted(existing_df, keys_to_replace) ==
    LET Keep(row) == row["event_key"] \in keys_to_replace
    IN  [existing_df EXCEPT !.rows = SelectSeq(existing_df.rows, Keep)]

\* existing_df[~existing_df["event_key"].isin(keys_to_replace)]
KeepRows(existing_df, keys_to_replace) ==
    LET Keep(row) == row["event_key"] \notin keys_to_replace
    IN  [existing_df EXCEPT !.rows = SelectSeq(existing_df.rows, Keep)]

\* the else branch of update_file: the merged frame, or KeyError
Upsert(sheet, new_data_df) ==
    LET existing_df == read_excel(sheet)
        new_keys == Column(new_data_df, "event_key")
    IN  IF new_keys.raised THEN new_keys
        ELSE IF Column(existing_df, "event_key").raised THEN Raised("KeyError")
        ELSE Returned(Concat(KeepRows(existing_df, Range(new_keys.value)), new_data_df))

\* A variant of the mode test that appends in replace mode when a file exists.
UpdateFrame_NeverReplace(sheet, new_data_df, mode) ==
    IF ~sheet.exists THEN Returned(reorder_columns(new_data_df))
    ELSE Returned(reorder_columns(Concat(read_excel(sheet), new_data_df)))

\* update_file up to df = reorder_columns(df): the frame to write, or the
\* exception raised before anything is written
UpdateFrame(sheet, new_data_df, mode) ==
    IF mode = "replace" \/ ~sheet.exists
    THEN Returned(reorder_columns(new_data_df))
    ELSE LET df == Upsert(sheet, new_data_df)
         IN  IF df.raised THEN df ELSE Returned(reorder_columns(df.value))

\* the rest of update_file: to_excel, then auto_adjust_excel_columns
WriteFrame(df) == auto_adjust_excel_columns(to_excel(df))

\* update_file(new_data_df, mode) run in one piece on the file as it is:
\* the file it leaves, and whether it raised
update_file(sheet, new_data_df, mode) ==
    LET df == UpdateFrame(sheet, new_data_df, mode)
    IN  IF df.raised THEN [raised |-> TRUE, file |-> sheet]
        ELSE [raised |-> FALSE, file |-> WriteFrame(df.value)]

(***************************************************************************)
(* SpecReconcile: update_file called on a file the program wrote, with     *)
(* the rows of a batch, once and again.                                    *)
(***************************************************************************)
\* del dct[key]
DictDel(dct, key) ==
    LET NotKey(x) == x # key
    IN  [k |-> "dict", keys |-> SelectSeq(dct.keys, NotKey),
         d |-> [x \in (DOMAIN dct.d) \ {key} |-> dct.d[x]]]

\* A tie: TBA gives winning_alliance = "".
TieMatch(event_key) ==
    DictSet(GoodMatch(event_key, "qm", 1, 2), "winning_alliance", JStr(""))

WonMatch(event_key) ==
    DictSet(GoodMatch(event_key, "qm", 1, 1), "winning_alliance", JStr("red"))

\* A match that carries no event_key.
NoKeyMatch == DictDel(GoodMatch(EV_A, "qm", 1, 3), "event_key")

ReconcileSamples == {GoodMatch(EV_A, "qm", 1, 1), TieMatch(EV_A), WonMatch(EV_B), NoKeyMatch}

\* all_rows after the matches ms: the rows of each, in order
RECURSIVE RowsOf(_)
RowsOf(ms) ==
    IF ms = <<>> THEN <<>> ELSE process_match(Head(ms)).value \o RowsOf(Tail(ms))

MaxBatchMatches == 2

MaxCalls == 2

ReconcileBatches == {RowsOf(ms) : ms \in SeqsUpTo(ReconcileSamples, MaxBatchMatches)}

ExistingFiles ==
    {NoFile} \cup {WriteFrame(reorder_columns(DataFrame(b))) :
                      b \in ReconcileBatches \ {<<>>}}

ReconcileInit ==
    /\ file \in ExistingFiles
    /\ rc_incoming \in ReconcileBatches
    /\ rc_mode \in {"replace", "update"}
    /\ rc_prev = NoFile
    /\ rc_calls = 0
    /\ rc_raised = FALSE
    /\ FlattenIdle
    /\ FetchIdle
    /\ GuiIdle

Reconcile ==
    /\ rc_calls < MaxCalls
    /\ LET r == update_file(file, DataFrame(rc_incoming), rc_mode)
       IN  /\ file' = r.file
           /\ rc_raised' = r.raised
    /\ rc_prev' = file
    /\ rc_calls' = rc_calls + 1
    /\ UNCHANGED <<rc_incoming, rc_mode, flattenVars, fetchVars, guiVars>>

ReconcileNext == Reconcile

SpecReconcile == ReconcileInit /\ [][ReconcileNext]_vars

\* the event_key values present in the incoming rows (NaN for a row without)
IncomingKeys == {DictGet(rc_incoming[j], "event_key", JNull) : j \in 1..Len(rc_incoming)}

IncomingHasKeyColumn == \E j \in 1..Len(rc_incoming) : DictHas(rc_incoming[j], "event_key")

\* The dataset is what read_excel gives back.  The file holds: the rows of
\* the previous dataset whose event_key is not among the incoming ones,
\* unchanged and in their order, then every incoming row; nothing else.
UpsertContent ==
    LET existing == read_excel(rc_prev)
        now == read_excel(file)
        Kept(row) == row["event_key"] \notin IncomingKeys
        kept == SelectSeq(existing.rows, Kept)
    IN  /\ Len(now.rows) = Len(kept) + Len(rc_incoming)
        /\ \A i \in 1..Len(kept) : \A c \in Range(now.columns) :
              now.rows[i][c] = IF c \in Range(existing.columns) THEN kept[i][c] ELSE JNull
        /\ \A i \in 1..Len(kept) : now.rows[i]["event_key"] \notin IncomingKeys
        /\ \A j \in 1..Len(rc_incoming) :
              /\ Range(rc_incoming[j].keys) \subseteq Range(now.columns)
              /\ \A c \in Range(now.columns) :
                    now.rows[Len(kept) + j][c] = ReadCell(DictGet(rc_incoming[j], c, JNull))

UpsertCalled == rc_calls >= 1 /\ rc_mode = "update" /\ rc_prev.exists /\ rc_incoming # <<>>

\* C1 as stated: for any existing dataset and any non-empty incoming batch,
\* update mode leaves the existing rows of the other events unchanged, none
\* of the existing rows of the incoming events, and every incoming row.
C1_Original == UpsertCalled => (~rc_raised /\ UpsertContent)

\* C1 amended: the same, for an existing file and an incoming batch that
\* both have an event_key column; when either lacks it update_file raises
\* KeyError and leaves the file as it was.
C1_Amended ==
    UpsertCalled =>
        IF IncomingHasKeyColumn /\ "event_key" \in Range(rc_prev.columns)
        THEN ~rc_raised /\ UpsertContent
        ELSE rc_raised /\ file = rc_prev

C1_Witness ==
    /\ UpsertCalled /\ rc_calls = 1 /\ ~rc_raised
    /\ IncomingKeys = {JStr(EV_A)}
    /\ {rc_prev.rows[i]["event_key"] : i \in 1..Len(rc_prev.rows)} = {JStr(EV_A), JStr(EV_B)}
    /\ Len(rc_prev.rows) = 4
    /\ Len(file.rows) = 4
    /\ file.rows[1]["event_key"] = JStr(EV_B)
    /\ file.rows[3]["match"] = JStr("qm 2")

\* C4: replace mode.  Whatever file was there, update_file leaves a file
\* whose rows are exactly the incoming rows (its columns the keys they
\* carry), and a second call with the same rows leaves the same file.
C4_Replace ==
    (rc_calls >= 1 /\ rc_mode = "replace") =>
        /\ ~rc_raised
        /\ file.exists
        /\ Len(file.rows) = Len(rc_incoming)
        /\ \A j \in 1..Len(rc_incoming) :
              /\ Range(rc_incoming[j].keys) \subseteq Range(file.columns)
              /\ \A c \in Range(file.columns) :
                    file.rows[j][c] = DictGet(rc_incoming[j], c, JNull)
        /\ \A c \in Range(file.columns) :
              \E j \in 1..Len(rc_incoming) : DictHas(rc_incoming[j], c)
        /\ rc_calls >= 2 => file = rc_prev

C4_Witness ==
    /\ rc_calls = 2 /\ rc_mode = "replace"
    /\ Len(file.rows) = 2
    /\ "event_key" \in Range(file.columns)
    /\ file.rows[1]["event_key"] = JStr(EV_B)
    /\ file = rc_prev

(***************************************************************************)
(* Spec: the program as the operator drives it.  The main thread refreshes *)
(* the list of available events, changes the selection and clicks the two  *)
(* batch buttons; each click starts a background thread that runs one      *)
(* batch.  A thread's steps are the points where it reads or writes what   *)
(* other threads see: the selection, available_events, the file and the    *)
(* message boxes.                                                          *)
(***************************************************************************)
MaxBatches == 2

Slots == 1..MaxBatches

EmptyFrame == [columns |-> <<>>, rows |-> <<>>]

\* the answers of /events/{year}: a list of events (by key), or an error
EventsResponses ==
    {[status_code |-> HTTP_OK, events |-> <<EV_A, EV_B>>],
     [status_code |-> 500, events |-> <<>>]}

\* the list fetch_available_events returns (the error box it shows on a
\* failure is not kept)
fetch_available_events(response) ==
    IF response.status_code = HTTP_OK THEN response.events ELSE <<>>

\* the answers of /event/{event_key}/matches
MatchesResponses(event_key) ==
    {Response(404, Raised("JSONDecodeError")),
     Response(HTTP_OK, Returned(JList(<<GoodMatch(event_key, "qm", 1, 1),
                                        BadMatch(event_key)>>))),
     Response(HTTP_OK, Returned(JList(<<GoodMatch(event_key, "sf", 1, 1),
                                        GoodMatch(event_key, "sf", 2, 1)>>))),
     Response(HTTP_OK, Returned(JList(<<NoKeyMatch>>)))}

MessageBox(box, title, message) == [box |-> box, title |-> title, message |-> message]

\* messagebox.showwarning("Some Events Had Errors", combined_errors)
ErrorsBox(error_list) ==
    [box |-> "showwarning", title |-> "Some Events Had Errors", errors |-> error_list]

IdleThread ==
    [pc |-> "idle", fn |-> "none", events |-> <<>>, selected_indices |-> <<>>, i |-> 0,
     error_list |-> <<>>, all_rows |-> <<>>, df |-> EmptyFrame, shown |-> <<>>,
     wrote |-> FALSE]

\* the mode a batch passes to update_file
ModeOf(fn) == IF fn = "load_all_events" THEN "replace" ELSE "update"

SuccessMessage(fn) ==
    IF fn = "load_all_events" THEN "File replaced with all TBA events data."
    ELSE "Selected events updated in file."

NoDataMessage(fn) ==
    IF fn = "load_all_events" THEN "No data fetched."
    ELSE "No data fetched for selected events."

\* curselection(): the selected indices, ascending
Ascending(S) ==
    [n \in 1..Cardinality(S) |-> CHOOSE i \in S : Cardinality({j \in S : j < i}) = n - 1]

\* sorted() of event keys
SortedKeys(S) ==
    LET In(key) == key \in S
    IN  SelectSeq(<<EV_A, EV_B>>, In)

load_existing_data(sheet) == IF sheet.exists THEN read_excel(sheet) ELSE EmptyFrame

\* update_file_events_list: the items it leaves in the listbox, and whether
\* it raised.  The listbox is emptied first; sorted() raises TypeError when
\* the column holds both strings and NaN.
update_file_events_list(sheet) ==
    LET df == load_existing_data(sheet)
    IN  IF df.rows # <<>> /\ "event_key" \in Range(df.columns)
        THEN LET unique == {df.rows[i]["event_key"] : i \in 1..Len(df.rows)}
                 strings == {v.s : v \in {u \in unique : u.k = "str"}}
             IN  IF JNull \in unique /\ strings # {}
                 THEN [raised |-> TRUE, items |-> <<>>]
                 ELSE IF JNull \in unique
                 THEN [raised |-> FALSE, items |-> <<"nan">>]
                 ELSE [raised |-> FALSE, items |-> SortedKeys(strings)]
        ELSE [raised |-> FALSE, items |-> <<>>]

\* A variant of "if all_rows:" that takes the branch for an empty list too.
HasRows_Always(all_rows) == TRUE

\* if all_rows:
HasRows(all_rows) == all_rows # <<>>

Init ==
    /\ \E response \in EventsResponses :
          available_events = fetch_available_events(response)
    /\ selection = {}
    /\ file = NoFile
    /\ file_events_listbox = update_file_events_list(NoFile).items
    /\ threads = [t \in Slots |-> IdleThread]
    /\ batches_started = 0
    /\ progress_on = FALSE
    /\ FlattenIdle
    /\ FetchIdle
    /\ ReconcileIdle

idleVars == <<flattenVars, fetchVars, reconcileVars>>

\* refresh_available_events: the global is rebound to the new list and the
\* listbox refilled, which clears the selection
RefreshAvailableEvents ==
    /\ \E response \in EventsResponses :
          available_events' = fetch_available_events(response)
    /\ selection' = {}
    /\ UNCHANGED <<file, file_events_listbox, threads, batches_started, progress_on,
                   idleVars>>

\* the operator clicks an item of the MULTIPLE listbox
ToggleSelect ==
    /\ \E idx \in 0..(Len(available_events) - 1) :
          selection' = IF idx \in selection THEN selection \ {idx}
                       ELSE selection \cup {idx}
    /\ UNCHANGED <<available_events, file, file_events_listbox, threads,
                   batches_started, progress_on, idleVars>>

\* a click on one of the two buttons: start_loading, and a new thread
StartThread(fn) ==
    /\ batches_started < MaxBatches
    /\ batches_started' = batches_started + 1
    /\ threads' = [threads EXCEPT ![batches_started + 1] =
                      [IdleThread EXCEPT !.pc = "begin", !.fn = fn]]
    /\ progress_on' = TRUE
    /\ UNCHANGED <<available_events, selection, file, file_events_listbox, idleVars>>

threaded_load_all_events == StartThread("load_all_events")

threaded_add_replace_selected == StartThread("add_replace_selected")

\* an exception leaves the thread: the task ends there
Crashed(th) == [th EXCEPT !.pc = "crashed"]

\* the first lines of the batch function.  load_all_events takes the list
\* available_events is bound to; add_replace_selected reads the selection
\* and returns after a warning when it is empty, and the task stops the
\* progress bar.
Begin(t) ==
    LET th == threads[t]
        selected_indices == Ascending(selection)
    IN  /\ th.pc = "begin"
        /\ IF th.fn = "load_all_events"
           THEN /\ threads' = [threads EXCEPT ![t] =
                       [th EXCEPT !.events = available_events, !.i = 1, !.pc = "fetch"]]
                /\ UNCHANGED progress_on
           ELSE IF selected_indices = <<>>
           THEN /\ threads' = [threads EXCEPT ![t] =
                       [th EXCEPT !.pc = "done",
                                  !.shown = Append(@, MessageBox("showwarning",
                                               "No Selection", "No events selected."))]]
                /\ progress_on' = FALSE
           ELSE /\ threads' = [threads EXCEPT ![t] =
                       [th EXCEPT !.selected_indices = selected_indices, !.i = 1,
                                  !.pc = "fetch"]]
                /\ UNCHANGED progress_on
        /\ UNCHANGED <<available_events, selection, file, file_events_listbox,
                       batches_started, idleVars>>

\* what the loop of the batch runs over
Items(th) == IF th.fn = "load_all_events" THEN th.events ELSE th.selected_indices

\* all_rows.extend(rows) after r = fetch_event_matches(event_key, error_list)
Extend(th, r) ==
    IF r.raised THEN Crashed(th)
    ELSE [th EXCEPT !.all_rows = @ \o r.value.rows,
                    !.error_list = r.value.error_list,
                    !.i = @ + 1]

\* the event key of this turn of the loop.  add_replace_selected indexes
\* the list available_events is bound to now: IndexError when it has
\* become shorter.
EventAt(th) ==
    IF th.fn = "load_all_events" THEN Returned(th.events[th.i])
    ELSE LET idx == th.selected_indices[th.i]
         IN  IF idx >= Len(available_events) THEN Raised("IndexError")
             ELSE Returned(available_events[idx + 1])

\* one turn of the loop
FetchStep(t) ==
    LET th == threads[t]
    IN  /\ th.pc = "fetch"
        /\ th.i <= Len(Items(th))
        /\ \E event \in {EventAt(th)} :
              IF event.raised
              THEN threads' = [threads EXCEPT ![t] = Crashed(th)]
              ELSE \E response \in MatchesResponses(event.value) :
                   \E r \in {fetch_event_matches(event.value, response, th.error_list)} :
                       threads' = [threads EXCEPT ![t] = Extend(th, r)]
        /\ UNCHANGED <<available_events, selection, file, file_events_listbox,
                       batches_started, progress_on, idleVars>>

\* after the loop: with rows, update_file up to the frame it will write
\* (the file is read here); without, the error box
Collected(t) ==
    LET th == threads[t]
        df == UpdateFrame(file, DataFrame(th.all_rows), ModeOf(th.fn))
    IN  /\ th.pc = "fetch"
        /\ th.i > Len(Items(th))
        /\ threads' = [threads EXCEPT ![t] =
              IF HasRows(th.all_rows)
              THEN IF df.raised THEN Crashed(th)
                   ELSE [th EXCEPT !.df = df.value, !.pc = "write"]
              ELSE [th EXCEPT !.pc = "report",
                              !.shown = Append(@, MessageBox("showerror", "Error",
                                                             NoDataMessage(th.fn)))]]
        /\ UNCHANGED <<available_events, selection, file, file_events_listbox,
                       batches_started, progress_on, idleVars>>

\* the frame is written and the columns adjusted: update_file returns;
\* then the success box
WriteStep(t) ==
    LET th == threads[t]
    IN  /\ th.pc = "write"
        /\ file' = WriteFrame(th.df)
        /\ threads' = [threads EXCEPT ![t] =
              [th EXCEPT !.pc = "list", !.wrote = TRUE, !.df = EmptyFrame,
                         !.shown = Append(@, MessageBox("showinfo", "Success",
                                                        SuccessMessage(th.fn)))]]
        /\ UNCHANGED <<available_events, selection, file_events_listbox,
                       batches_started, progress_on, idleVars>>

\* update_file_events_list() after the success box
ListStep(t) ==
    LET th == threads[t]
        list == update_file_events_list(file)
    IN  /\ th.pc = "list"
        /\ file_events_listbox' = list.items
        /\ threads' = [threads EXCEPT ![t] =
              IF list.raised THEN Crashed(th) ELSE [th EXCEPT !.pc = "report"]]
        /\ UNCHANGED <<available_events, selection, file, batches_started, progress_on,
                       idleVars>>

\* the end of the batch function: the warning with every error collected,
\* if any; then the task stops the progress bar
ReportStep(t) ==
    LET th == threads[t]
    IN  /\ th.pc = "report"
        /\ threads' = [threads EXCEPT ![t] =
              [th EXCEPT !.pc = "done",
                         !.shown = IF th.error_list # <<>>
                                   THEN Append(@, ErrorsBox(th.error_list)) ELSE @]]
        /\ progress_on' = FALSE
        /\ UNCHANGED <<available_events, selection, file, file_events_listbox,
                       batches_started, idleVars>>

Next ==
    \/ RefreshAvailableEvents
    \/ ToggleSelect
    \/ threaded_load_all_events
    \/ threaded_add_replace_selected
    \/ \E t \in Slots : Begin(t)
    \/ \E t \in Slots : FetchStep(t)
    \/ \E t \in Slots : Collected(t)
    \/ \E t \in Slots : WriteStep(t)
    \/ \E t \in Slots : ListStep(t)
    \/ \E t \in Slots : ReportStep(t)

Spec == Init /\ [][Next]_vars

\* the aggregate warnings a thread has shown
AggregateWarnings(th) ==
    {n \in 1..Len(th.shown) : th.shown[n].title = "Some Events Had Errors"}

\* the batch went into its loop
BatchRan(th) == th.fn = "load_all_events" \/ th.selected_indices # <<>>

\* the cell of a row of the file, NaN where the file has no such column
FileCell(i, c) == IF c \in Range(file.columns) THEN ReadCell(file.rows[i][c]) ELSE JNull

Triple(i) == <<FileCell(i, "event_key"), FileCell(i, "match"), FileCell(i, "alliance")>>

\* C2: uniqueness.  After any batches the file holds at most one row for
\* each (event_key, match, alliance).
C2_Original ==
    file.exists =>
        \A i \in 1..Len(file.rows) : \A j \in 1..Len(file.rows) :
            i # j => Triple(i) # Triple(j)

\* C5: no concurrency.  No two threads are at once between the read and
\* the write of update_file.
C5_Original ==
    \A t1 \in Slots : \A t2 \in Slots :
        t1 # t2 => ~(threads[t1].pc = "write" /\ threads[t2].pc = "write")

\* C8: a zero-row batch.  A batch whose loop ended with no row collected
\* does not call update_file, so it never writes the file, shows the
\* "No data fetched" error box, and shows no success box.
C8_ZeroRows ==
    \A t \in Slots :
        LET th == threads[t]
        IN  (th.pc \in {"report", "done"} /\ BatchRan(th) /\ th.all_rows = <<>>) =>
                /\ ~th.wrote
                /\ \E n \in 1..Len(th.shown) :
                      th.shown[n] = MessageBox("showerror", "Error", NoDataMessage(th.fn))
                /\ \A n \in 1..Len(th.shown) : th.shown[n].box # "showinfo"

C8_Witness ==
    \E t \in Slots :
        LET th == threads[t]
        IN  /\ th.pc = "done"
            /\ th.fn = "add_replace_selected"
            /\ Len(th.selected_indices) = 2
            /\ th.all_rows = <<>>
            /\ th.error_list # <<>>
            /\ ~th.wrote
            /\ file.exists

\* C10: aggregate reporting.  No aggregate warning is shown while a batch
\* is still fetching, and a batch that has ended with errors collected has
\* shown them exactly once, in one warning that carries all of them.
C10_Original ==
    \A t \in Slots :
        LET th == threads[t]
        IN  /\ th.pc \in {"begin", "fetch"} => AggregateWarnings(th) = {}
            /\ (th.pc \in {"done", "crashed"} /\ th.error_list # <<>>) =>
                  /\ Cardinality(AggregateWarnings(th)) = 1
                  /\ \A n \in AggregateWarnings(th) : th.shown[n] = ErrorsBox(th.error_list)

====
